---- MODULE Spec2Model ----
(***************************************************************************)
(* godb: an in-memory map backed by an append-only log file.               *)
(* Files are byte sequences (bytes are 0..255); 32-bit words are held as   *)
(* 4-tuples of bytes in big-endian order, which is how they lie on disk.   *)
(***************************************************************************)
EXTENDS Integers, Sequences, FiniteSets, TLC

(* ------------------------------------------------------------------ *)
(* Bounds of the model                                                  *)
(* ------------------------------------------------------------------ *)
\* Set/Del calls (successful or failed) in one history
MaxAppends == 2
\* injected failures (an I/O call that fails, the process stopping inside
\* Compact) in one history
MaxFaults == 1
\* entries of a log drawn by the replay specification
MaxEntries == 2
\* entries of an undamaged log drawn by the replay specification
MaxReplay == 4
\* entries of an undamaged log over the wider keys and values
MaxRound == 2
\* bits of a length field in the reduced-width frame (the code's are 32)
Width == 4

(* ------------------------------------------------------------------ *)
(* kv/log.go: entry types                                               *)
(* ------------------------------------------------------------------ *)
OpSet == 1
OpDel == 2

(* ------------------------------------------------------------------ *)
(* 32-bit words and CRC32-IEEE (hash/crc32, reflected polynomial        *)
(* 0xEDB88320, initial value and final xor 0xFFFFFFFF)                  *)
(* ------------------------------------------------------------------ *)
RECURSIVE XorBits(_, _, _)
XorBits(x, y, n) ==
    IF n = 0 THEN 0
    ELSE ((x + y) % 2) + 2 * XorBits(x \div 2, y \div 2, n - 1)

XorNib == [x \in 0..15 |-> [y \in 0..15 |-> XorBits(x, y, 4)]]

Xor8(x, y) == 16 * XorNib[x \div 16][y \div 16] + XorNib[x % 16][y % 16]

Xor32(u, v) == <<Xor8(u[1], v[1]), Xor8(u[2], v[2]), Xor8(u[3], v[3]), Xor8(u[4], v[4])>>

Shr1(w) == << w[1] \div 2,
              (w[1] % 2) * 128 + w[2] \div 2,
              (w[2] % 2) * 128 + w[3] \div 2,
              (w[3] % 2) * 128 + w[4] \div 2 >>

Shr8(w) == <<0, w[1], w[2], w[3]>>

IEEEPoly == <<237, 184, 131, 32>>

AllOnes == <<255, 255, 255, 255>>

RECURSIVE CrcBits(_, _)
CrcBits(w, n) ==
    IF n = 0 THEN w
    ELSE CrcBits(IF w[4] % 2 = 1 THEN Xor32(IEEEPoly, Shr1(w)) ELSE Shr1(w), n - 1)

IEEETable == [b \in 0..255 |-> CrcBits(<<0, 0, 0, b>>, 8)]

\* the table-driven update, one byte of p after another (the word is worked
\* out at every byte, before the next one is taken)
RECURSIVE CrcUpdate(_, _, _)
CrcUpdate(crc, p, i) ==
    IF Len(crc) = 4 /\ i > Len(p) THEN crc
    ELSE CrcUpdate(Xor32(IEEETable[Xor8(crc[4], p[i])], Shr8(crc)), p, i + 1)

\* crc32.ChecksumIEEE computed byte by byte
checksumBytes(p) == Xor32(CrcUpdate(AllOnes, p, 1), AllOnes)

\* binary.BigEndian.PutUint32(b, uint32(n)) for an int n >= 0
\* (the low four bytes of n, most significant first)
PutUint32(n) ==
    << (n \div 16777216) % 256, (n \div 65536) % 256, (n \div 256) % 256, n % 256 >>

\* binary.BigEndian.Uint32(b[off : off+4]) for a 0-based offset off
Uint32(b, off) ==
    b[off + 1] * 16777216 + b[off + 2] * 65536 + b[off + 3] * 256 + b[off + 4]

(* ------------------------------------------------------------------ *)
(* Inputs                                                               *)
(* ------------------------------------------------------------------ *)
\* keys and values are byte strings
Keys == {<<97>>, <<98>>}
Vals == {<<>>, <<49>>}

\* keys and values of the round trip: empty, the extreme bytes, and strings
\* that look like a length field or a tag
RoundKeys == {<<>>, <<97>>, <<0, 255>>, <<0, 0, 0, 1, 2>>}
RoundVals == {<<>>, <<49>>, <<255, 0>>, <<2, 0, 0, 0, 0>>}

\* how many bytes of the 8-byte header a failing header write leaves behind
HdrCuts == {3}
\* how many bytes of the payload a failing payload write leaves behind
PayCuts == {3}

(* ------------------------------------------------------------------ *)
(* kv/log.go: payloads                                                  *)
(* ------------------------------------------------------------------ *)
\* (variant: the value is written without its length)
buildSetPayloadNoValLen(key, value) ==
    <<OpSet>> \o PutUint32(Len(key)) \o key \o value

buildSetPayload(key, value) ==
    <<OpSet>> \o PutUint32(Len(key)) \o key \o PutUint32(Len(value)) \o value

buildDelPayload(key) ==
    <<OpDel>> \o PutUint32(Len(key)) \o key

\* crc32.ChecksumIEEE; the checksums of the payloads the store itself builds
\* are computed once and looked up afterwards
BuiltPayloads ==
    {buildSetPayload(k, v) : k \in Keys, v \in Vals} \cup {buildDelPayload(k) : k \in Keys}

BuiltChecksums == [p \in BuiltPayloads |-> checksumBytes(p)]

ChecksumIEEE(p) == IF p \in BuiltPayloads THEN BuiltChecksums[p] ELSE checksumBytes(p)

\* the 8-byte frame header writeLogEntry builds for a payload
FrameHeader(payload) == PutUint32(Len(payload)) \o ChecksumIEEE(payload)

(* ------------------------------------------------------------------ *)
(* Files and handles                                                    *)
(* ------------------------------------------------------------------ *)
\* logPath, logPath + ".compact.tmp", logPath + ".compact.new"
Names == {"log", "tmp", "new"}

NoFile == [exists |-> FALSE, bytes |-> <<>>]
EmptyFile == [exists |-> TRUE, bytes |-> <<>>]

ClosedHandle == [open |-> FALSE, off |-> 0, app |-> FALSE]

\* (variant: the handle stays usable)
closeHandleNot(h) == h

\* (*os.File).Close: the handle is closed whether or not Close reports an error
closeHandle(h) == [h EXCEPT !.open = FALSE]

\* (variant: the handle left where os.OpenFile put it, at offset 0)
seekStartHandle(n) == [open |-> TRUE, off |-> 0, app |-> FALSE]

\* the handle NewKV keeps: O_RDWR|O_CREATE, then Seek(0, 2) on a file of n bytes
seekEndHandle(n) == [open |-> TRUE, off |-> n, app |-> FALSE]

\* (variant: the live log reopened without O_APPEND)
appendHandleAtStart == [open |-> TRUE, off |-> 0, app |-> FALSE]

\* the handle Compact installs: os.OpenFile(k.logPath, O_RDWR|O_APPEND)
appendHandle == [open |-> TRUE, off |-> 0, app |-> TRUE]

\* (variant: the file opened with O_TRUNC)
openedBytesTrunc(file) == <<>>

\* the content NewKV finds behind os.OpenFile(logPath, O_RDWR|O_CREATE):
\* an absent file is created empty, an existing one is left as it is
openedBytes(file) == file.bytes

\* (*os.File).Write of b through a handle on a file holding bytes c: at the
\* end of the file under O_APPEND, else at the handle's offset
WriteAt(c, h, b) ==
    LET at == IF h.app THEN Len(c) ELSE h.off
    IN  SubSeq(c, 1, at) \o b \o SubSeq(c, at + Len(b) + 1, Len(c))

\* outcomes of the three I/O calls of writeLogEntry
WriteFaults(payload) ==
    {[kind |-> "ok", n |-> 0], [kind |-> "sync", n |-> 0]}
        \cup {[kind |-> "hdr", n |-> c] : c \in HdrCuts}
        \cup {[kind |-> "pay", n |-> c] : c \in {c \in PayCuts : c < Len(payload)}}

\* the bytes writeLogEntry hands to the file before it returns
WrittenBytes(payload, fault) ==
    CASE fault.kind = "hdr" -> SubSeq(FrameHeader(payload), 1, fault.n)
      [] fault.kind = "pay" -> FrameHeader(payload) \o SubSeq(payload, 1, fault.n)
      [] OTHER -> FrameHeader(payload) \o payload

\* writeLogEntry(f, payload): c is the file's content, h the handle.
\* A closed handle fails the first Write and leaves the file alone.
writeLogEntry(c, h, payload, fault) ==
    IF ~h.open
    THEN [bytes |-> c, h |-> h, err |-> TRUE]
    ELSE LET b == WrittenBytes(payload, fault)
             at == IF h.app THEN Len(c) ELSE h.off
         IN  [bytes |-> WriteAt(c, h, b),
              h |-> [h EXCEPT !.off = at + Len(b)],
              err |-> fault.kind # "ok"]

\* the places inside writeLogEntry at which the process can stop with part of
\* the entry handed to the file: behind f.Write(hdr[:]) and behind
\* f.Write(payload), before f.Sync() has returned
Stops == {"hdr", "pay"}

\* the bytes the file has got when the process stops at such a place
StoppedBytes(payload, stop) ==
    IF stop = "hdr" THEN FrameHeader(payload) ELSE FrameHeader(payload) \o payload

(* ------------------------------------------------------------------ *)
(* kv/log.go: readLog                                                   *)
(* ------------------------------------------------------------------ *)
\* (variant: the stored checksum is not looked at)
crcMatchesAlways(payload, expectedCrc) == TRUE

\* the comparison of the computed checksum with the stored one
crcMatches(payload, expectedCrc) == ChecksumIEEE(payload) = expectedCrc

\* a failing read of the file (an error that is not the end of the file):
\* io.ReadFull of the header ("hdr") or of the payload ("pay") of the frame
\* behind the first `at` entries; "none": every read goes through
NoReadFault == [kind |-> "none", at |-> 0]

\* what readLog returns: the payloads and the error; hit tells whether the
\* failing read was met
ReadResult(results, err, hit) == [entries |-> results, err |-> err, hit |-> hit]

RECURSIVE readLogFrom(_, _, _, _)

\* (variant: the corrupt frame is skipped and reading goes on behind it)
onMismatchSkip(b, off, size, results, rf) == readLogFrom(b, off + 8 + size, results, rf)

\* what readLog returns when the frame at off fails its checksum: the
\* payloads collected so far, and no error
onMismatch(b, off, size, results, rf) == ReadResult(results, FALSE, FALSE)

readLogFrom(b, off, results, rf) ==
    IF rf.kind = "hdr" /\ rf.at = Len(results)
    THEN ReadResult(results, TRUE, TRUE)            \* return results, err
    ELSE IF Len(b) - off < 8
    THEN ReadResult(results, FALSE, FALSE)          \* io.EOF or io.ErrUnexpectedEOF
    ELSE LET size == Uint32(b, off)
             expectedCrc == SubSeq(b, off + 5, off + 8)
         IN  IF rf.kind = "pay" /\ rf.at = Len(results)
             THEN ReadResult(results, FALSE, TRUE)  \* any error of the payload read
             ELSE IF Len(b) - (off + 8) < size
             THEN ReadResult(results, FALSE, FALSE) \* truncated payload
             ELSE LET payload == SubSeq(b, off + 9, off + 8 + size)
                  IN  IF ~crcMatches(payload, expectedCrc)
                      THEN onMismatch(b, off, size, results, rf)
                      ELSE readLogFrom(b, off + 8 + size, Append(results, payload), rf)

readLog(b, rf) == readLogFrom(b, 0, <<>>, rf)

(* ------------------------------------------------------------------ *)
(* The in-memory map                                                    *)
(* ------------------------------------------------------------------ *)
EmptyMap == [k \in {} |-> <<>>]
MapSet(d, key, val) == [k \in DOMAIN d \cup {key} |-> IF k = key THEN val ELSE d[k]]
MapDel(d, key) == [k \in DOMAIN d \ {key} |-> d[k]]

\* KV.Get on a table
Get(d, key) ==
    IF key \in DOMAIN d THEN [ok |-> TRUE, val |-> d[key]] ELSE [ok |-> FALSE, val |-> <<>>]

(* ------------------------------------------------------------------ *)
(* NewKV: replay of the payloads readLog returned                       *)
(* ------------------------------------------------------------------ *)
ReplayError(d) == [ok |-> FALSE, data |-> d]

applySet(d, p) ==
    IF 1 + 4 > Len(p) THEN ReplayError(d)
    ELSE LET klen == Uint32(p, 1)
             off == 5
         IN  IF off + klen > Len(p) THEN ReplayError(d)
             ELSE LET key == SubSeq(p, off + 1, off + klen)
                      off2 == off + klen
                  IN  IF off2 + 4 > Len(p) THEN ReplayError(d)
                      ELSE LET vlen == Uint32(p, off2)
                               off3 == off2 + 4
                           IN  IF off3 + vlen > Len(p) THEN ReplayError(d)
                               ELSE [ok |-> TRUE,
                                     data |-> MapSet(d, key, SubSeq(p, off3 + 1, off3 + vlen))]

\* (variant: a tombstone leaves the table as it is)
applyDelKeep(d, p) == [ok |-> TRUE, data |-> d]

applyDel(d, p) ==
    IF 1 + 4 > Len(p) THEN ReplayError(d)
    ELSE LET klen == Uint32(p, 1)
             off == 5
         IN  IF off + klen > Len(p) THEN ReplayError(d)
             ELSE [ok |-> TRUE, data |-> MapDel(d, SubSeq(p, off + 1, off + klen))]

applyEntry(d, p) ==
    IF Len(p) = 0 THEN [ok |-> TRUE, data |-> d]
    ELSE IF p[1] = OpSet THEN applySet(d, p)
    ELSE IF p[1] = OpDel THEN applyDel(d, p)
    ELSE ReplayError(d)

RECURSIVE replayFrom(_, _, _)
replayFrom(entries, i, d) ==
    IF i > Len(entries) THEN [ok |-> TRUE, data |-> d]
    ELSE LET r == applyEntry(d, entries[i])
         IN  IF r.ok THEN replayFrom(entries, i + 1, r.data) ELSE r

\* the table NewKV builds from a log file's bytes when every read goes through
\* (ok = FALSE: NewKV fails)
Replay(b) == replayFrom(readLog(b, NoReadFault).entries, 1, EmptyMap)

(* ------------------------------------------------------------------ *)
(* State                                                                *)
(* ------------------------------------------------------------------ *)
VARIABLES
    fs,         \* the directory: file name -> [exists, bytes]
    data,       \* KV.data
    logH,       \* KV.log: [open, off, app]
    tmpOpen,    \* Compact's tmpF is open
    dirOpen,    \* Compact's df / df2 is open
    leaked,     \* a handle NewKV opened on the log is open and no store holds it
    pc,         \* "closed" (no store), "idle" (between calls), or a place in Compact
    todo,       \* keys Compact's range loop has not visited yet
    res,        \* the last call that returned: [op, err, step]; for Compact, step
                \* tells whether the swap rename had happened when it returned
                \* ("running": it has not returned yet)
    pre,        \* what the last Set, Del, Get or Compact call of this store found
                \* when it started, and its key
    acked,      \* the table the successful Set/Del calls of this store add up to
    dirty,      \* keys with a failed Set/Del since their last successful one
    clean,      \* no NewKV, Set, Del or Compact call has returned an error so far
                \* and no append to the live log has been cut short by a stop
    degraded,   \* Compact has failed on this store after its swap rename
    script,     \* the log the replay specification put on disk: [ops, damage]
    crashedAt,  \* "preswap"/"postswap" if the process last stopped inside Compact
                \* ("": it has not, or a call has been made since)
    nAppends, nFaults

vars == <<fs, data, logH, tmpOpen, dirOpen, leaked, pc, todo, res, pre, acked, dirty, clean,
          degraded, script, crashedAt, nAppends, nFaults>>

\* an injected failure is charged to the budget of the history
Charge(failed) ==
    /\ failed => nFaults < MaxFaults
    /\ nFaults' = IF failed THEN nFaults + 1 ELSE nFaults

NoScript == [ops |-> <<>>, damage |-> [kind |-> "none"]]

Result(op, err, step) == [op |-> op, err |-> err, step |-> step]

\* what a call finds: the live log, the table, the temp file, the store's
\* handle; and the key the call is given (Compact has none)
Snapshot ==
    [log |-> fs["log"].bytes, data |-> data, tmp |-> fs["tmp"].exists,
     tmpBytes |-> fs["tmp"].bytes, h |-> logH, key |-> <<>>]

SnapshotOf(key) == [Snapshot EXCEPT !.key = key]

NoCall ==
    [log |-> <<>>, data |-> EmptyMap, tmp |-> FALSE,
     tmpBytes |-> <<>>, h |-> ClosedHandle, key |-> <<>>]

Init ==
    /\ fs = [n \in Names |-> NoFile]
    /\ data = EmptyMap
    /\ logH = ClosedHandle
    /\ tmpOpen = FALSE
    /\ dirOpen = FALSE
    /\ leaked = FALSE
    /\ pc = "closed"
    /\ todo = {}
    /\ res = Result("none", FALSE, "")
    /\ pre = NoCall
    /\ acked = EmptyMap
    /\ dirty = {}
    /\ clean = TRUE
    /\ degraded = FALSE
    /\ script = NoScript
    /\ crashedAt = ""
    /\ nAppends = 0
    /\ nFaults = 0

\* (variant: the table updated before the append's error is looked at)
dataAfterSetEager(d, key, value, err) == MapSet(d, key, value)

\* (variant: the range loop skips keys whose value is empty)
compactKeysNonEmpty(d) == {k \in DOMAIN d : d[k] # <<>>}

\* KV.data after Set / Del, given the error writeLogEntry returned
dataAfterSet(d, key, value, err) == IF err THEN d ELSE MapSet(d, key, value)
dataAfterDel(d, key, err) == IF err THEN d ELSE MapDel(d, key)

\* the keys Compact's range loop visits
compactKeys(d) == DOMAIN d

(* ------------------------------------------------------------------ *)
(* NewKV                                                                *)
(* ------------------------------------------------------------------ *)
\* what can fail in NewKV: nothing, f.Seek, a read of a frame header, a read
\* of a payload
NewKVFaults == {"none", "seek", "readhdr", "readpay"}

ReadFault(fault, at) ==
    CASE fault = "readhdr" -> [kind |-> "hdr", at |-> at]
      [] fault = "readpay" -> [kind |-> "pay", at |-> at]
      [] OTHER -> NoReadFault

\* fault is one of NewKVFaults; a failing read is the one behind the first
\* `at` entries. res.step names the failure injected, or "replay" when the
\* replay loop returned its error.
NewKV(fault, at) ==
    /\ pc = "closed"
    /\ UNCHANGED <<tmpOpen, dirOpen, todo, pre, crashedAt, nAppends, script, degraded>>
    /\ Charge(fault # "none")
    /\ \E bytes \in {openedBytes(fs["log"])} :
       \E rl \in {readLog(bytes, ReadFault(fault, at))} :
       \E r \in {replayFrom(rl.entries, 1, EmptyMap)} :
           /\ (fault \in {"readhdr", "readpay"}) => rl.hit
           /\ (fault \in {"none", "seek"}) => at = 0
           /\ (fault = "seek") => r.ok
           /\ fs' = [fs EXCEPT !["log"] = [exists |-> TRUE, bytes |-> bytes]]
           /\ IF rl.err
              THEN \* f.Close(); return nil, err
                   /\ res' = Result("NewKV", TRUE, fault)
                   /\ clean' = FALSE
                   /\ UNCHANGED <<data, logH, pc, acked, dirty, leaked>>
              ELSE IF ~r.ok
              THEN \* return nil, fmt.Errorf(...): f stays open
                   /\ res' = Result("NewKV", TRUE, IF fault = "none" THEN "replay" ELSE fault)
                   /\ clean' = FALSE
                   /\ leaked' = TRUE
                   /\ UNCHANGED <<data, logH, pc, acked, dirty>>
              ELSE IF fault = "seek"
              THEN \* f.Close(); return nil, err
                   /\ res' = Result("NewKV", TRUE, fault)
                   /\ clean' = FALSE
                   /\ UNCHANGED <<data, logH, pc, acked, dirty, leaked>>
              ELSE /\ data' = r.data
                   /\ logH' = seekEndHandle(Len(bytes))
                   /\ pc' = "idle"
                   /\ res' = Result("NewKV", FALSE, IF fault = "none" THEN "" ELSE fault)
                   /\ acked' = r.data
                   /\ dirty' = {}
                   /\ UNCHANGED <<clean, leaked>>

(* ------------------------------------------------------------------ *)
(* Set, Del, Close                                                      *)
(* ------------------------------------------------------------------ *)
Set(key, value, fault) ==
    /\ pc = "idle"
    /\ nAppends < MaxAppends
    /\ ~logH.open => fault.kind = "ok"      \* no write is tried on a closed handle
    /\ Charge(fault.kind # "ok")
    /\ nAppends' = nAppends + 1
    /\ pre' = SnapshotOf(key)
    /\ \E w \in {writeLogEntry(fs["log"].bytes, logH, buildSetPayload(key, value), fault)} :
           /\ fs' = [fs EXCEPT !["log"].bytes = w.bytes]
           /\ logH' = w.h
           /\ res' = Result("Set", w.err, "")
           /\ data' = dataAfterSet(data, key, value, w.err)
           /\ IF w.err
              THEN /\ dirty' = dirty \cup {key}
                   /\ clean' = FALSE
                   /\ UNCHANGED acked
              ELSE /\ acked' = MapSet(acked, key, value)
                   /\ dirty' = dirty \ {key}
                   /\ UNCHANGED clean
    /\ crashedAt' = ""
    /\ UNCHANGED <<tmpOpen, dirOpen, leaked, pc, todo, degraded, script>>

Del(key, fault) ==
    /\ pc = "idle"
    /\ nAppends < MaxAppends
    /\ ~logH.open => fault.kind = "ok"      \* no write is tried on a closed handle
    /\ Charge(fault.kind # "ok")
    /\ nAppends' = nAppends + 1
    /\ pre' = SnapshotOf(key)
    /\ \E w \in {writeLogEntry(fs["log"].bytes, logH, buildDelPayload(key), fault)} :
           /\ fs' = [fs EXCEPT !["log"].bytes = w.bytes]
           /\ logH' = w.h
           /\ res' = Result("Del", w.err, "")
           /\ data' = dataAfterDel(data, key, w.err)
           /\ IF w.err
              THEN /\ dirty' = dirty \cup {key}
                   /\ clean' = FALSE
                   /\ UNCHANGED acked
              ELSE /\ acked' = MapDel(acked, key)
                   /\ dirty' = dirty \ {key}
                   /\ UNCHANGED clean
    /\ crashedAt' = ""
    /\ UNCHANGED <<tmpOpen, dirOpen, leaked, pc, todo, degraded, script>>

\* whether a place in Compact lies before or after the swap rename has happened
PostSwap == {"c_dirsync2", "c_reopen"}
Phase(place) ==
    IF place = "" THEN "" ELSE IF place \in PostSwap THEN "postswap" ELSE "preswap"

\* KV.Get as a call on the store: a lookup, no I/O
GetCall(key) ==
    /\ pc = "idle"
    /\ pre' = Snapshot
    /\ res' = Result("Get", FALSE, "")
    /\ crashedAt' = ""
    /\ UNCHANGED <<fs, data, logH, tmpOpen, dirOpen, leaked, pc, todo, acked, dirty,
                   clean, degraded, script, nAppends, nFaults>>

\* KV.Close: return k.log.Close(). Closing a handle that is closed already
\* (Compact has closed k.log and not replaced it) is an error; fail is an I/O
\* error of the close of an open handle, which is released all the same. The
\* store is not used after Close.
Close(fail) ==
    /\ pc = "idle"
    /\ ~logH.open => ~fail
    /\ pc' = "closed"
    /\ logH' = ClosedHandle
    /\ data' = EmptyMap
    /\ res' = Result("Close", fail \/ ~logH.open, "")
    /\ crashedAt' = ""
    /\ degraded' = FALSE
    /\ pre' = NoCall
    /\ UNCHANGED <<fs, tmpOpen, dirOpen, leaked, todo, acked, dirty, clean,
                   nAppends, script>>
    /\ Charge(fail)

\* the process stops: its handles and its table are gone, the files stay as
\* they are. phase tells whether it was inside Compact, and on which side of
\* the swap rename.
Stopped(phase) ==
    /\ Charge(TRUE)
    /\ pc' = "closed"
    /\ logH' = ClosedHandle
    /\ tmpOpen' = FALSE
    /\ dirOpen' = FALSE
    /\ leaked' = FALSE
    /\ data' = EmptyMap
    /\ todo' = {}
    /\ res' = Result("Crash", FALSE, "")
    /\ crashedAt' = phase
    /\ degraded' = FALSE

\* the process stops between two calls of the store (no call is under way,
\* as after Close), or between two I/O calls of Compact
Crash ==
    /\ pc # "closed"
    /\ Stopped(IF pc = "idle" THEN "" ELSE Phase(pc))
    /\ pre' = IF pc = "idle" THEN NoCall ELSE pre
    /\ UNCHANGED <<fs, acked, dirty, clean, nAppends, script>>

\* the process stops inside the writeLogEntry of a Set or a Del, at one of
\* Stops: the live log has got the header, or the header and the payload, and
\* the call never returns
AppendStopped(key, payload, stop) ==
    /\ pc = "idle"
    /\ logH.open
    /\ nAppends < MaxAppends
    /\ Stopped("")
    /\ nAppends' = nAppends + 1
    /\ pre' = SnapshotOf(key)
    /\ fs' = [fs EXCEPT !["log"].bytes = WriteAt(@, logH, StoppedBytes(payload, stop))]
    /\ dirty' = dirty \cup {key}
    /\ clean' = (clean /\ stop = "pay")
    /\ UNCHANGED <<acked, script>>

SetStopped(key, value, stop) == AppendStopped(key, buildSetPayload(key, value), stop)

DelStopped(key, stop) == AppendStopped(key, buildDelPayload(key), stop)

(* ------------------------------------------------------------------ *)
(* Compact, one step per I/O call                                       *)
(* ------------------------------------------------------------------ *)
Rename(f, from, to) == [f EXCEPT ![to] = f[from], ![from] = NoFile]
Remove(f, name) == [f EXCEPT ![name] = NoFile]

\* Compact returns to its caller from a place
CompactReturn(place, err) ==
    /\ pc' = "idle"
    /\ todo' = {}
    /\ res' = Result("Compact", err, Phase(place))
    /\ degraded' = (degraded \/ (err /\ place \in PostSwap))
    /\ clean' = (clean /\ ~err)

\* (variant: the temp file opened without O_EXCL)
exclFailsNot(file) == FALSE

\* O_CREATE|O_EXCL: the open fails when the file is there
exclFails(file) == file.exists

\* os.OpenFile(tmpName, O_CREATE|O_WRONLY|O_TRUNC|O_EXCL)
CompactCreate(fail) ==
    /\ pc = "idle"
    /\ pre' = Snapshot
    /\ crashedAt' = ""
    /\ exclFails(fs["tmp"]) => ~fail
    /\ IF fail \/ exclFails(fs["tmp"])
       THEN /\ CompactReturn("c_create", TRUE)
            /\ UNCHANGED <<fs, tmpOpen>>
       ELSE /\ fs' = [fs EXCEPT !["tmp"] = EmptyFile]
            /\ tmpOpen' = TRUE
            /\ pc' = "c_write"
            /\ todo' = compactKeys(data)
            /\ res' = Result("Compact", FALSE, "running")
            /\ UNCHANGED <<clean, degraded>>
    /\ UNCHANGED <<data, logH, dirOpen, leaked, acked, dirty, nAppends, script>>
    /\ Charge(fail)

\* one iteration of the range loop: any key not visited yet
CompactWrite(key, fault) ==
    /\ pc = "c_write"
    /\ key \in todo
    /\ Charge(fault.kind # "ok")
    /\ \E w \in {writeLogEntry(fs["tmp"].bytes,
                                [open |-> tmpOpen, off |-> Len(fs["tmp"].bytes), app |-> FALSE],
                                buildSetPayload(key, data[key]), fault)} :
           IF w.err
           THEN /\ tmpOpen' = FALSE
                /\ fs' = Remove(fs, "tmp")
                /\ CompactReturn("c_write", TRUE)
           ELSE /\ fs' = [fs EXCEPT !["tmp"].bytes = w.bytes]
                /\ todo' = todo \ {key}
                /\ UNCHANGED <<tmpOpen, pc, res, clean, degraded>>
    /\ UNCHANGED <<data, logH, dirOpen, leaked, pre, acked, dirty, crashedAt,
                   nAppends, script>>

\* the process stops inside an iteration of the range loop. stop is one of
\* Stops (fault is "ok": the temp file has got the header, or the header and
\* the payload), or "remove": writeLogEntry has returned the error of fault and
\* the process stops before os.Remove(tmpName), the temp file keeping what the
\* failed append had written.
CompactWriteStopped(key, fault, stop) ==
    /\ pc = "c_write"
    /\ key \in todo
    /\ (stop = "remove") = (fault.kind # "ok")
    /\ Stopped("preswap")
    /\ LET payload == buildSetPayload(key, data[key])
           b == IF stop = "remove" THEN WrittenBytes(payload, fault)
                ELSE StoppedBytes(payload, stop)
       IN  fs' = [fs EXCEPT !["tmp"].bytes = @ \o b]
    /\ UNCHANGED <<pre, acked, dirty, clean, nAppends, script>>

\* tmpF.Close() after the loop
CompactCloseTmp(fail) ==
    /\ pc = "c_write"
    /\ todo = {}
    /\ tmpOpen' = FALSE
    /\ IF fail
       THEN /\ fs' = Remove(fs, "tmp")
            /\ CompactReturn("c_write", TRUE)
       ELSE /\ pc' = "c_stage"
            /\ UNCHANGED <<fs, todo, res, clean, degraded>>
    /\ UNCHANGED <<data, logH, dirOpen, leaked, pre, acked, dirty, crashedAt,
                   nAppends, script>>
    /\ Charge(fail)

\* os.Rename(tmpName, rotatedName)
CompactStage(fail) ==
    /\ pc = "c_stage"
    /\ IF fail
       THEN /\ fs' = Remove(fs, "tmp")
            /\ CompactReturn("c_stage", TRUE)
       ELSE /\ fs' = Rename(fs, "tmp", "new")
            /\ pc' = "c_dirsync1"
            /\ UNCHANGED <<todo, res, clean, degraded>>
    /\ UNCHANGED <<data, logH, tmpOpen, dirOpen, leaked, pre, acked, dirty, crashedAt,
                   nAppends, script>>
    /\ Charge(fail)

DirSyncPc == <<"c_dirsync1", "c_dirsync2">>
AfterDirPc == <<"c_logclose", "c_reopen">>

\* the n-th "fsync directory" block: os.Open(dir), df.Sync(), df.Close().
\* fault: "none", "open", "sync" or "close"; df is closed on every path that
\* opened it, and nothing but the error return depends on which call failed
CompactDirSync(n, fault) ==
    /\ pc = DirSyncPc[n]
    /\ dirOpen' = FALSE
    /\ IF fault # "none"
       THEN CompactReturn(pc, TRUE)
       ELSE /\ pc' = AfterDirPc[n]
            /\ UNCHANGED <<todo, res, clean, degraded>>
    /\ UNCHANGED <<fs, data, logH, tmpOpen, leaked, pre, acked, dirty, crashedAt,
                   nAppends, script>>
    /\ Charge(fault # "none")

\* k.log.Close(); closing a handle that is already closed is an error too
CompactCloseLog(fail) ==
    /\ pc = "c_logclose"
    /\ logH' = closeHandle(logH)
    /\ ~logH.open => ~fail
    /\ IF fail \/ ~logH.open
       THEN CompactReturn(pc, TRUE)
       ELSE /\ pc' = "c_swap"
            /\ UNCHANGED <<todo, res, clean, degraded>>
    /\ UNCHANGED <<fs, data, tmpOpen, dirOpen, leaked, pre, acked, dirty, crashedAt,
                   nAppends, script>>
    /\ Charge(fail)

\* os.Rename(rotatedName, k.logPath)
CompactSwap(fail) ==
    /\ pc = "c_swap"
    /\ IF fail
       THEN /\ CompactReturn(pc, TRUE)
            /\ UNCHANGED fs
       ELSE /\ fs' = Rename(fs, "new", "log")
            /\ pc' = "c_dirsync2"
            /\ UNCHANGED <<todo, res, clean, degraded>>
    /\ UNCHANGED <<data, logH, tmpOpen, dirOpen, leaked, pre, acked, dirty, crashedAt,
                   nAppends, script>>
    /\ Charge(fail)

\* os.OpenFile(k.logPath, O_RDWR|O_APPEND); k.log = newLog
CompactReopen(fail) ==
    /\ pc = "c_reopen"
    /\ IF fail
       THEN /\ CompactReturn(pc, TRUE)
            /\ UNCHANGED logH
       ELSE /\ logH' = appendHandle
            /\ CompactReturn("", FALSE)
    /\ UNCHANGED <<fs, data, tmpOpen, dirOpen, leaked, pre, acked, dirty, crashedAt,
                   nAppends, script>>
    /\ Charge(fail)

(* ------------------------------------------------------------------ *)
(* Specification                                                        *)
(* ------------------------------------------------------------------ *)
Next ==
    \/ \E fault \in {"none", "seek"} : NewKV(fault, 0)
    \/ \E key \in Keys, value \in Vals :
          \E fault \in WriteFaults(buildSetPayload(key, value)) : Set(key, value, fault)
    \/ \E key \in Keys :
          \E fault \in WriteFaults(buildDelPayload(key)) : Del(key, fault)
    \/ \E key \in Keys : GetCall(key)
    \/ \E fail \in BOOLEAN : Close(fail)
    \/ Crash
    \/ \E key \in Keys, value \in Vals, stop \in Stops : SetStopped(key, value, stop)
    \/ \E key \in Keys, stop \in Stops : DelStopped(key, stop)
    \/ \E fail \in BOOLEAN : CompactCreate(fail)
    \/ \E key \in Keys :
          \E fault \in WriteFaults(buildSetPayload(key, <<>>)) : CompactWrite(key, fault)
    \/ \E key \in Keys, stop \in Stops \cup {"remove"} :
          \E fault \in WriteFaults(buildSetPayload(key, <<>>)) :
             CompactWriteStopped(key, fault, stop)
    \/ \E fail \in BOOLEAN : CompactCloseTmp(fail)
    \/ \E fail \in BOOLEAN : CompactStage(fail)
    \/ \E n \in {1, 2}, fault \in {"none", "open", "sync", "close"} : CompactDirSync(n, fault)
    \/ \E fail \in BOOLEAN : CompactCloseLog(fail)
    \/ \E fail \in BOOLEAN : CompactSwap(fail)
    \/ \E fail \in BOOLEAN : CompactReopen(fail)

Spec == Init /\ [][Next]_vars

(* ------------------------------------------------------------------ *)
(* Replay specification: NewKV on a log that is already on disk         *)
(* ------------------------------------------------------------------ *)
\* the calls whose entries make up a log
LogOps ==
    {[op |-> "set", key |-> k, val |-> v] : k \in Keys, v \in Vals}
        \cup {[op |-> "del", key |-> k, val |-> <<>>] : k \in Keys}

OpSeqs(n) == UNION {[1..m -> LogOps] : m \in 0..n}

\* the same over the wider keys and values
RoundOps ==
    {[op |-> "set", key |-> k, val |-> v] : k \in RoundKeys, v \in RoundVals}
        \cup {[op |-> "del", key |-> k, val |-> <<>>] : k \in RoundKeys}

RoundSeqs == UNION {[1..m -> RoundOps] : m \in 1..MaxRound}

PayloadOf(o) ==
    IF o.op = "set" THEN buildSetPayload(o.key, o.val) ELSE buildDelPayload(o.key)

\* the bytes a successful writeLogEntry appends for a payload
Frame(p) == WrittenBytes(p, [kind |-> "ok", n |-> 0])

RECURSIVE LogOf(_, _, _)
LogOf(ops, from, to) ==
    IF from > to THEN <<>> ELSE Frame(PayloadOf(ops[from])) \o LogOf(ops, from + 1, to)

FlipBit(byte, bit) ==
    IF (byte \div (2 ^ bit)) % 2 = 1 THEN byte - 2 ^ bit ELSE byte + 2 ^ bit

\* the entries a damaged tail is cut from
TailOps == {[op |-> "set", key |-> <<97>>, val |-> <<49>>], [op |-> "del", key |-> <<98>>, val |-> <<>>]}

AnyOp == CHOOSE o \in TailOps : TRUE

Damage(kind, at, n, bit, extra) ==
    [kind |-> kind, at |-> at, n |-> n, bit |-> bit, extra |-> extra]

\* payloads no Set or Del call builds, each with the record the payload layout
\* (tag 1: klen key vlen val; tag 2: klen key) makes of it, if any
NoRecord == [op |-> "none", key |-> <<>>, val |-> <<>>]

RawPayloads ==
    << [bytes |-> <<>>,                               rec |-> NoRecord],
       [bytes |-> <<0>>,                              rec |-> NoRecord],
       [bytes |-> <<3, 0, 0, 0, 1, 97>>,              rec |-> NoRecord],
       [bytes |-> <<1>>,                              rec |-> NoRecord],
       [bytes |-> <<1, 0, 0, 0, 2, 97>>,              rec |-> NoRecord],
       [bytes |-> <<1, 0, 0, 0, 1, 97>>,              rec |-> NoRecord],
       [bytes |-> <<1, 0, 0, 0, 1, 97, 0, 0, 0, 2, 49>>, rec |-> NoRecord],
       [bytes |-> <<2, 0, 0>>,                        rec |-> NoRecord],
       [bytes |-> <<2, 0, 0, 0, 2, 97>>,              rec |-> NoRecord],
       [bytes |-> <<1, 0, 0, 0, 0, 0, 0, 0, 0>>,
        rec |-> [op |-> "set", key |-> <<>>, val |-> <<>>]],
       [bytes |-> <<2, 0, 0, 0, 1, 97>>,
        rec |-> [op |-> "del", key |-> <<97>>, val |-> <<>>]] >>

\* what has happened to a log of the entries of ops:
\*   none  nothing
\*   hdr   the first n < 8 header bytes of a further entry follow
\*   pay   the header and the first n payload bytes of a further entry follow
\*   crc   a further entry follows whose stored checksum has a bit flipped
\*   flip  bit `bit` of payload byte n of entry `at` is flipped
\*   raw   the n-th of RawPayloads, framed with its right length and checksum,
\*         stands behind the first `at` entries
Damages(ops) ==
    {Damage("none", 0, 0, 0, AnyOp)}
        \cup {Damage("raw", i, n, 0, AnyOp) : i \in 0..Len(ops), n \in 1..Len(RawPayloads)}
        \cup {Damage("hdr", 0, n, 0, e) : n \in 1..7, e \in TailOps}
        \cup UNION {{Damage("pay", 0, n, 0, e) : n \in 0..(Len(PayloadOf(e)) - 1)} : e \in TailOps}
        \cup {Damage("crc", 0, 0, bit, e) : bit \in 0..7, e \in TailOps}
        \cup UNION {{Damage("flip", i, n, bit, AnyOp) :
                        n \in 1..Len(PayloadOf(ops[i])), bit \in 0..7} : i \in 1..Len(ops)}

DamagedLog(ops, d) ==
    LET whole == LogOf(ops, 1, Len(ops))
        tail == Frame(PayloadOf(d.extra))
    IN  CASE d.kind = "hdr" -> whole \o SubSeq(tail, 1, d.n)
          [] d.kind = "pay" -> whole \o SubSeq(tail, 1, 8 + d.n)
          [] d.kind = "crc" -> whole \o [tail EXCEPT ![8] = FlipBit(@, d.bit)]
          [] d.kind = "raw" ->
                LogOf(ops, 1, d.at) \o Frame(RawPayloads[d.n].bytes)
                    \o LogOf(ops, d.at + 1, Len(ops))
          [] d.kind = "flip" ->
                LET f == Frame(PayloadOf(ops[d.at]))
                IN  LogOf(ops, 1, d.at - 1)
                        \o [f EXCEPT ![8 + d.n] = FlipBit(@, d.bit)]
                        \o LogOf(ops, d.at + 1, Len(ops))
          [] OTHER -> whole

\* the log of ops, with damage d, lies on disk
OnDisk(ops, d) ==
    /\ script = [ops |-> ops, damage |-> d]
    /\ fs = [n \in Names |->
               IF n = "log"
               THEN [exists |-> TRUE, bytes |-> DamagedLog(ops, d)]
               ELSE NoFile]

\* no store has been opened yet
Unopened ==
    /\ data = EmptyMap
    /\ logH = ClosedHandle
    /\ tmpOpen = FALSE
    /\ dirOpen = FALSE
    /\ leaked = FALSE
    /\ pc = "closed"
    /\ todo = {}
    /\ res = Result("none", FALSE, "")
    /\ pre = NoCall
    /\ acked = EmptyMap
    /\ dirty = {}
    /\ clean = TRUE
    /\ degraded = FALSE
    /\ crashedAt = ""
    /\ nAppends = 0
    /\ nFaults = 0

InitR ==
    /\ \/ \E ops \in OpSeqs(MaxEntries) : \E d \in Damages(ops) : OnDisk(ops, d)
       \/ \E ops \in OpSeqs(MaxReplay) \cup RoundSeqs :
             OnDisk(ops, Damage("none", 0, 0, 0, AnyOp))
    /\ Unopened

NextR == NewKV("none", 0)

SpecR == InitR /\ [][NextR]_vars

(* ------------------------------------------------------------------ *)
(* Failing-read specification: NewKV on an undamaged log, with a read  *)
(* or the seek failing in it                                            *)
(* ------------------------------------------------------------------ *)
InitF ==
    /\ \E ops \in OpSeqs(MaxEntries) : OnDisk(ops, Damage("none", 0, 0, 0, AnyOp))
    /\ Unopened

NextF == \E fault \in NewKVFaults, at \in 0..MaxEntries : NewKV(fault, at)

SpecF == InitF /\ [][NextF]_vars

(* ------------------------------------------------------------------ *)
(* Reopen specification: a store used, closed and opened again on a    *)
(* log an earlier process left, with no failing I/O call                *)
(* ------------------------------------------------------------------ *)
NoFault == [kind |-> "ok", n |-> 0]

\* what an earlier process left: whole entries, or whole entries and the
\* first bytes of the header of one more
TailsD == {Damage("none", 0, 0, 0, AnyOp)}
              \cup {Damage("hdr", 0, n, 0, e) : n \in HdrCuts, e \in TailOps}

InitD ==
    /\ \E ops \in OpSeqs(1) : \E d \in TailsD : OnDisk(ops, d)
    /\ Unopened

NextD ==
    \/ NewKV("none", 0)
    \/ \E key \in Keys, value \in Vals : Set(key, value, NoFault)
    \/ \E key \in Keys : Del(key, NoFault)
    \/ \E key \in Keys : GetCall(key)
    \/ Close(FALSE)

SpecD == InitD /\ [][NextD]_vars

(* ------------------------------------------------------------------ *)
(* Width specification: one Set on an empty log, with the length       *)
(* fields Width bits wide in place of 32. A length is converted as     *)
(* uint32(n) converts it, to its low bits, and takes one byte; the     *)
(* checksum keeps its four bytes. The Set payload is                   *)
(* 1 + 1 + len(key) + 1 + len(value) bytes long (1 + 4 + .. + 4 + ..   *)
(* in the code), the header 1 + 4 (4 + 4 in the code).                 *)
(* ------------------------------------------------------------------ *)
\* uint32(n) and binary.BigEndian.PutUint32 at the reduced width
PutUintW(n) == << n % (2 ^ Width) >>

\* the lengths that fit a length field
FitW == 0 .. (2 ^ Width - 1)

HdrLenW == 1 + 4

RECURSIVE Rep(_, _)
Rep(byte, n) == IF n = 0 THEN <<>> ELSE Append(Rep(byte, n - 1), byte)

buildSetPayloadW(key, value) ==
    <<OpSet>> \o PutUintW(Len(key)) \o key \o PutUintW(Len(value)) \o value

\* hdr[0:4] = uint32(len(payload)); hdr[4:8] = crc32.ChecksumIEEE(payload)
FrameHeaderW(payload) == PutUintW(Len(payload)) \o ChecksumIEEE(payload)

\* writeLogEntry with no failing call
writeLogEntryW(c, h, payload) ==
    LET b == FrameHeaderW(payload) \o payload
        at == IF h.app THEN Len(c) ELSE h.off
    IN  [bytes |-> WriteAt(c, h, b), h |-> [h EXCEPT !.off = at + Len(b)], err |-> FALSE]

\* a store opened on an empty log; the call to come is a Set of a key of klen
\* bytes and a value of vlen bytes
InitW ==
    /\ \E klen \in FitW, vlen \in FitW : script = [klen |-> klen, vlen |-> vlen]
    /\ fs = [n \in Names |-> IF n = "log" THEN EmptyFile ELSE NoFile]
    /\ data = EmptyMap
    /\ logH = seekEndHandle(0)
    /\ tmpOpen = FALSE
    /\ dirOpen = FALSE
    /\ leaked = FALSE
    /\ pc = "idle"
    /\ todo = {}
    /\ res = Result("NewKV", FALSE, "")
    /\ pre = NoCall
    /\ acked = EmptyMap
    /\ dirty = {}
    /\ clean = TRUE
    /\ degraded = FALSE
    /\ crashedAt = ""
    /\ nAppends = 0
    /\ nFaults = 0

SetW ==
    /\ pc = "idle"
    /\ nAppends = 0
    /\ nAppends' = 1
    /\ LET key == Rep(97, script.klen)
           value == Rep(49, script.vlen)
           w == writeLogEntryW(fs["log"].bytes, logH, buildSetPayloadW(key, value))
       IN  /\ pre' = SnapshotOf(key)
           /\ fs' = [fs EXCEPT !["log"].bytes = w.bytes]
           /\ logH' = w.h
           /\ res' = Result("Set", w.err, "")
           /\ data' = dataAfterSet(data, key, value, w.err)
           /\ acked' = MapSet(acked, key, value)
    /\ UNCHANGED <<tmpOpen, dirOpen, leaked, pc, todo, dirty, clean, degraded, script,
                   crashedAt, nFaults>>

NextW == SetW

SpecW == InitW /\ [][NextW]_vars

(* ------------------------------------------------------------------ *)
(* Properties                                                           *)
(* ------------------------------------------------------------------ *)
\* the table a fresh NewKV on the live log path would build now
Reopened == Replay(fs["log"].bytes)

\* C1: no acknowledged write is lost. When a store is opened again, every key
\* whose last Set/Del call on the previous store succeeded (no failed call on
\* that key came after it) reads as that call left it: the value of the last
\* successful Set, absent after a successful Del.
C1_AckedWritesSurviveReopen ==
    [][(pc = "closed" /\ pc' = "idle")
          => \A k \in Keys \ dirty : Get(data', k) = Get(acked, k)]_vars

\* the frames of a log file, read the way readLog reads them
Entries == readLog(fs["log"].bytes, NoReadFault).entries

RECURSIVE FramedLen(_, _)
FramedLen(entries, i) ==
    IF i > Len(entries) THEN 0 ELSE 8 + Len(entries[i]) + FramedLen(entries, i + 1)

\* C2: the table is derived state. As long as no call has returned an error
\* (and no append was cut short by a stop of the process, the log being well
\* formed), replaying the live log from offset 0 gives exactly the table in
\* memory.
C2_TableIsReplayOfLog ==
    (pc = "idle" /\ clean) => (Reopened.ok /\ Reopened.data = data)

\* a Set has gone through the handle Compact reopened, after a tombstone
C2_Witness ==
    /\ pc = "idle" /\ clean
    /\ res = Result("Set", FALSE, "")
    /\ logH.app
    /\ Cardinality(DOMAIN data) = 1
    /\ Len(Entries) = 1
    /\ nAppends = 2

\* C3: compaction preserves state. When Compact has returned success the table
\* is the one it started from, a reopen of the live log yields that table, and
\* the live log is exactly one Set entry per key of the table, no tombstone
\* and no other byte.
C3_CompactPreservesState ==
    (pc = "idle" /\ res = Result("Compact", FALSE, ""))
        => /\ data = pre.data
           /\ Reopened.ok /\ Reopened.data = data
           /\ Len(Entries) = Cardinality(DOMAIN data)
           /\ \A i \in 1..Len(Entries) : Entries[i][1] = OpSet
           /\ FramedLen(Entries, 1) = Len(fs["log"].bytes)

\* a log of two entries, one of them a tombstone or a superseded value, has
\* been compacted to fewer entries
C3_Witness ==
    /\ pc = "idle" /\ res = Result("Compact", FALSE, "")
    /\ Len(readLog(pre.log, NoReadFault).entries) = 2
    /\ Len(Entries) < 2
    /\ clean

\* C4: compaction is crash-atomic. If the table was the replay of the live log
\* when Compact started and the process stopped inside Compact (between two of
\* its I/O calls, or inside the append of an entry to the temp file), a fresh NewKV
\* yields that table; until the swap rename has happened the live log is the
\* original one, byte for byte.
C4_CompactCrashAtomic ==
    /\ (crashedAt = "preswap") => fs["log"].bytes = pre.log
    /\ (/\ crashedAt # ""
        /\ pc = "idle" /\ res = Result("NewKV", FALSE, "")
        /\ Replay(pre.log).data = pre.data)
          => data = pre.data

\* the process stopped after the swap rename, and the store has been reopened
\* on the compacted log
C4_Witness ==
    /\ crashedAt = "postswap"
    /\ pc = "idle" /\ res = Result("NewKV", FALSE, "")
    /\ Replay(pre.log).data = pre.data
    /\ data # EmptyMap
    /\ fs["log"].bytes # pre.log

\* C5: when Compact returns an error before the swap rename has succeeded
\* (the temp file not having been there when it was called), neither the temp
\* file nor the staging file exists, and the live log's bytes and the table
\* are what they were.
C5_PreSwapFailureRollsBack ==
    (pc = "idle" /\ res = Result("Compact", TRUE, "preswap") /\ ~pre.tmp)
        => /\ ~fs["tmp"].exists
           /\ ~fs["new"].exists
           /\ fs["log"].bytes = pre.log
           /\ data = pre.data

\* C6: a compaction failure before the swap is recoverable: the Set or Del
\* that follows it, with no I/O fault of its own, returns success.
C6_PreSwapFailureRecoverable ==
    [][(/\ pc = "idle" /\ res = Result("Compact", TRUE, "preswap")
        /\ res'.op \in {"Set", "Del"}
        /\ nFaults' = nFaults)
          => ~res'.err]_vars

\* C7: after Compact has failed behind the swap rename the live log on disk is
\* the compacted log and replays to the table, the store has no open handle,
\* and every Set or Del on it returns an error and changes neither the table
\* nor the log.
C7_PostSwapFailureIsFatal ==
    /\ (pc = "idle" /\ res = Result("Compact", TRUE, "postswap"))
          => /\ degraded
             /\ data = pre.data
             /\ Len(Entries) = Cardinality(DOMAIN data)
             /\ FramedLen(Entries, 1) = Len(fs["log"].bytes)
    /\ (pc = "idle" /\ degraded)
          => /\ ~logH.open
             /\ Reopened.ok /\ Reopened.data = data
    /\ (pc = "idle" /\ degraded /\ res.op \in {"Set", "Del"})
          => /\ res.err
             /\ data = pre.data
             /\ fs["log"].bytes = pre.log

\* a Set has been refused by a store whose Compact failed behind the swap
C7_Witness ==
    /\ pc = "idle" /\ degraded
    /\ res = Result("Set", TRUE, "")
    /\ data # EmptyMap
    /\ nFaults = 1

\* C8: a Set or Del whose append failed returns the error and leaves the
\* table as it was before the call.
C8_FailedAppendLeavesTable ==
    (pc = "idle" /\ res.op \in {"Set", "Del"} /\ res.err) => data = pre.data

\* a Set has failed in Sync: its whole entry is in the log and would be
\* replayed, and the table does not have it
C8_Witness ==
    /\ pc = "idle" /\ res = Result("Set", TRUE, "")
    /\ Len(Entries) = Len(readLog(pre.log, NoReadFault).entries) + 1
    /\ Reopened.data # data
    /\ data = pre.data

\* the table the first n calls of ops add up to
RECURSIVE ApplyOps(_, _)
ApplyOps(ops, n) ==
    IF n = 0 THEN EmptyMap
    ELSE LET d == ApplyOps(ops, n - 1)
             o == ops[n]
         IN  IF o.op = "set" THEN MapSet(d, o.key, o.val) ELSE MapDel(d, o.key)

\* NewKV has returned, with no failure injected into it
Opened == res.op = "NewKV" /\ nFaults = 0

\* C9: crash-tail tolerance. On a log of n whole entries followed by a partial
\* header, a partial payload or an entry whose checksum does not match, NewKV
\* returns a store and no error, and the table is what the n entries add up to.
C9_CrashTailTolerated ==
    (Opened /\ script.damage.kind \in {"hdr", "pay", "crc"})
        => /\ ~res.err /\ pc = "idle"
           /\ data = ApplyOps(script.ops, Len(script.ops))

\* two whole entries and a checksum-mismatched third that would have changed
\* the table
C9_Witness ==
    /\ Opened /\ pc = "idle"
    /\ script.damage.kind = "crc"
    /\ Len(script.ops) = 2
    /\ data # EmptyMap
    /\ ApplyOps(Append(script.ops, script.damage.extra), 3) # data

\* C10: checksum sensitivity. With a bit of the payload of entry i flipped,
\* replay stops at entry i: the table is what entries 1..i-1 add up to.
C10_ReplayStopsAtCorruptEntry ==
    (Opened /\ script.damage.kind = "flip")
        => /\ ~res.err /\ pc = "idle"
           /\ data = ApplyOps(script.ops, script.damage.at - 1)

\* the first of two entries is corrupt; the second is whole, would have set a
\* key, and has not been applied
C10_Witness ==
    /\ Opened /\ pc = "idle"
    /\ script.damage.kind = "flip"
    /\ script.damage.at = 1
    /\ Len(script.ops) = 2
    /\ script.ops[2].op = "set"
    /\ data = EmptyMap

\* the calls of ops with a record put in behind the first `at` of them
WithRecord(ops, at, rec) ==
    SubSeq(ops, 1, at) \o <<rec>> \o SubSeq(ops, at + 1, Len(ops))

\* C11: decoding during replay is a closed two-case dispatch. A payload that
\* passes its checksum is applied as the Set or the Delete record its layout
\* describes, or NewKV returns an error and no store; a payload that is no
\* record is never passed over.
C11_DecodeIsClosedDispatch ==
    (Opened /\ script.damage.kind = "raw")
        => LET rec == RawPayloads[script.damage.n].rec
               ops == WithRecord(script.ops, script.damage.at, rec)
           IN  IF rec.op = "none"
               THEN res.err /\ pc = "closed"
               ELSE /\ ~res.err /\ pc = "idle"
                    /\ data = ApplyOps(ops, Len(ops))

\* the last call of ops on a key (0: none)
RECURSIVE LastOn(_, _, _)
LastOn(ops, key, i) ==
    IF i = 0 THEN 0 ELSE IF ops[i].key = key THEN i ELSE LastOn(ops, key, i - 1)

\* C12: replay order and tombstone precedence. Reopening a well-formed log,
\* each key reads as the last entry on it says: the value of the last Set if
\* no Delete of the key comes behind it, absent otherwise.
C12_LastEntryWins ==
    (Opened /\ script.damage.kind = "none")
        => /\ ~res.err /\ pc = "idle"
           /\ \A k \in Keys \cup RoundKeys \cup DOMAIN data :
                 LET i == LastOn(script.ops, k, Len(script.ops))
                 IN  Get(data, k) =
                         IF i = 0 \/ script.ops[i].op = "del"
                         THEN [ok |-> FALSE, val |-> <<>>]
                         ELSE [ok |-> TRUE, val |-> script.ops[i].val]

\* set(k, a), set(k, b), delete(k), set(k, c) has been replayed, and so has a
\* log ending in a tombstone of a key set before
C12_Witness ==
    /\ Opened /\ pc = "idle"
    /\ script.damage.kind = "none"
    /\ Len(script.ops) = 4
    /\ \A i \in 1..4 : script.ops[i].key = <<97>>
    /\ script.ops[1].op = "set" /\ script.ops[2].op = "set"
    /\ script.ops[1].val # script.ops[2].val
    /\ script.ops[3].op = "del"
    /\ script.ops[4].op = "set"
    /\ data = MapSet(EmptyMap, <<97>>, script.ops[4].val)

\* C14: encode/decode round trip. The payload buildSetPayload makes of a key
\* and a value is read back and applied as a Set of exactly that key and that
\* value, the payload buildDelPayload makes of a key as a Delete of exactly
\* that key; the empty key and the empty value included.
C14_EncodeDecodeRoundTrip ==
    (Opened /\ script.damage.kind = "none" /\ script.ops \in RoundSeqs)
        => /\ ~res.err /\ pc = "idle"
           /\ Entries = [i \in 1..Len(script.ops) |-> PayloadOf(script.ops[i])]
           /\ \A i \in 1..Len(script.ops) :
                 LET o == script.ops[i]
                     d == ApplyOps(script.ops, i - 1)
                     r == applyEntry(d, Entries[i])
                 IN  /\ r.ok
                     /\ (o.op = "set") =>
                           /\ DOMAIN r.data = DOMAIN d \cup {o.key}
                           /\ r.data[o.key] = o.val
                           /\ \A k \in DOMAIN d \ {o.key} : r.data[k] = d[k]
                     /\ (o.op = "del") =>
                           /\ DOMAIN r.data = DOMAIN d \ {o.key}
                           /\ \A k \in DOMAIN r.data : r.data[k] = d[k]
           /\ data = ApplyOps(script.ops, Len(script.ops))

\* a Set of the empty key, then a Delete of another key: the empty key still
\* has its value
C14_Witness ==
    /\ Opened /\ pc = "idle"
    /\ script.ops = << [op |-> "set", key |-> <<>>, val |-> <<255, 0>>],
                       [op |-> "del", key |-> <<0, 255>>, val |-> <<>>] >>
    /\ data = MapSet(EmptyMap, <<>>, <<255, 0>>)

\* C13: idempotent delete. A Del of a key the table does not hold returns
\* success, appends exactly one tombstone entry to the log and leaves the table
\* as it was; the key reads absent on the store, and absent after a reopen.
C13_DeleteOfAbsentKey ==
    (pc = "idle" /\ res = Result("Del", FALSE, "") /\ pre.key \notin DOMAIN pre.data)
        => /\ fs["log"].bytes = pre.log \o Frame(buildDelPayload(pre.key))
           /\ data = pre.data
           /\ ~Get(data, pre.key).ok
           /\ Reopened.ok
           /\ ~Get(Reopened.data, pre.key).ok

\* C15: I/O failures during replay are surfaced. When a read of the log fails
\* in NewKV for a reason other than the end of the file, on a frame header or
\* on a payload, NewKV returns the error and no store.
C15_ReadErrorsSurfaced ==
    (res.op = "NewKV" /\ res.step \in {"readhdr", "readpay"})
        => /\ res.err
           /\ pc = "closed"
           /\ data = EmptyMap

\* C16: file handles are scoped. When NewKV has returned an error the handle
\* it opened on the log is closed; when Compact is not running its temp-file
\* handle and its directory handles are closed; and there is never a second
\* open handle on the live log beside the store's.
C16_HandlesScoped ==
    /\ (res.op = "NewKV" /\ res.err) => ~leaked
    /\ (pc \in {"closed", "idle"}) => (~tmpOpen /\ ~dirOpen)
    /\ ~(leaked /\ logH.open)

\* C17: Compact refuses to clobber a leftover temp file. Called while the temp
\* file exists, Compact returns an error; the temp file is still there with
\* the bytes it had, the live log, the table and the store's handle are what
\* they were, and a Set or Del that follows goes through.
C17_LeftoverTempRefused ==
    (pc = "idle" /\ res.op = "Compact" /\ pre.tmp)
        => /\ res = Result("Compact", TRUE, "preswap")
           /\ fs["tmp"] = [exists |-> TRUE, bytes |-> pre.tmpBytes]
           /\ fs["log"].bytes = pre.log
           /\ data = pre.data
           /\ logH = pre.h
           /\ \A k \in Keys :
                 /\ ~writeLogEntry(fs["log"].bytes, logH, buildDelPayload(k), NoFault).err
                 /\ \A v \in Vals :
                       ~writeLogEntry(fs["log"].bytes, logH, buildSetPayload(k, v), NoFault).err

\* Compact has been refused on a store with a key, over a temp file in which
\* a stopped compaction had already written an entry
C17_Witness ==
    /\ pc = "idle" /\ res = Result("Compact", TRUE, "preswap")
    /\ pre.tmp
    /\ fs["tmp"].exists /\ fs["tmp"].bytes # <<>>
    /\ data # EmptyMap

\* the payloads a Set or a Del of a key can have built
PayloadsOn(op, key) ==
    IF op = "Set" THEN {buildSetPayload(key, v) : v \in Vals} ELSE {buildDelPayload(key)}

\* C19: the live log is append-only between compactions. A Set or a Del,
\* failed or not, leaves every byte the log had in its place and adds bytes
\* only behind them (a whole entry when it returns success), through the
\* handle of NewKV as through the handle Compact reopened; no other file is
\* touched; and a Get changes neither the files, nor the table, nor the handle.
C19_LogIsAppendOnly ==
    /\ (pc = "idle" /\ res.op \in {"Set", "Del"})
          => /\ Len(fs["log"].bytes) >= Len(pre.log)
             /\ SubSeq(fs["log"].bytes, 1, Len(pre.log)) = pre.log
             /\ ~res.err =>
                   \E p \in PayloadsOn(res.op, pre.key) : fs["log"].bytes = pre.log \o Frame(p)
             /\ fs["tmp"] = [exists |-> pre.tmp, bytes |-> pre.tmpBytes]
    /\ (pc = "idle" /\ res.op = "Get")
          => /\ fs["log"].bytes = pre.log
             /\ fs["tmp"] = [exists |-> pre.tmp, bytes |-> pre.tmpBytes]
             /\ data = pre.data
             /\ logH = pre.h

\* a Set has gone, through the handle NewKV positioned at the end of the
\* file, behind a log that ends in a partial entry replay stops at
C19_Witness ==
    /\ pc = "idle" /\ res = Result("Set", FALSE, "")
    /\ ~logH.app
    /\ pre.h.off = Len(pre.log)
    /\ FramedLen(readLog(pre.log, NoReadFault).entries, 1) < Len(pre.log)
    /\ Len(fs["log"].bytes) > Len(pre.log) + 8
    /\ data = MapSet(EmptyMap, pre.key, data[pre.key])

\* C18: the frame invariant under the field width. The entry a successful
\* append has written has a length field equal to the number of payload bytes
\* behind the header and a checksum field equal to the CRC32 of those bytes,
\* and the log has grown by the header and the payload; for every key and
\* value whose own lengths fit a length field.
C18_FrameInvariant ==
    (pc = "idle" /\ res = Result("Set", FALSE, ""))
        => LET b == fs["log"].bytes
               n == Len(b) - Len(pre.log) - HdrLenW
               payload == SubSeq(b, Len(pre.log) + HdrLenW + 1, Len(b))
           IN  /\ n = 1 + 1 + script.klen + 1 + script.vlen
               /\ b[Len(pre.log) + 1] = n
               /\ SubSeq(b, Len(pre.log) + 2, Len(pre.log) + HdrLenW) = checksumBytes(payload)

====
